---- MODULE Spec2Model ----
(***************************************************************************)
(* WHO ambient air-quality dashboard (src/page_dashboard.py, src/utils.py). *)
(*                                                                         *)
(* The dashboard is a Streamlit page script: every user interaction with a *)
(* sidebar widget re-executes the script from its first line.  One action  *)
(* of Spec is one execution of the script (load, column check, coercion,   *)
(* widgets, filter, KPI aggregates, cards).  SpecClassify exercises the    *)
(* two risk classifiers of utils.py as pure functions.                     *)
(*                                                                         *)
(* Floats are modelled as exact rationals n/d with d > 0; the float NaN    *)
(* is the cell with d = 0.  Missing text cells are the token "NaN", which *)
(* is what pandas.read_csv makes of them.  Python's None and the NaN that  *)
(* idxmax returns are the empty sequence, a present value x is <<x>>.      *)
(***************************************************************************)
EXTENDS Integers, Sequences, FiniteSets

VARIABLES
    csv,               \* data/processed.csv as read_csv sees it: columns and raw rows
    cache,             \* the value st.cache_data memoizes for load_data
    df,                \* the frame the last script run worked on (after coercion)
    widgets,           \* session state of the three sidebar widgets
    dff,               \* the filtered subset of the last run
    kpi,               \* the aggregates of the last run (script lines 70-101)
    cards,             \* the badges shown on the KPI cards
    message,           \* what st.error / st.warning showed in the last run
    trace,             \* statements of the script executed by the last run
    outcome,           \* how the last run ended
    value1, value2,    \* SpecClassify: arguments of the classifiers
    pollutant_arg,     \* SpecClassify: the pollutant_col argument
    badge1,            \* SpecClassify: risk_badge(value1, pollutant_arg)
    tier1, tier2       \* SpecClassify: _risk_tier(value1 / value2, pollutant_arg)

vars == <<csv, cache, df, widgets, dff, kpi, cards, message, trace, outcome,
          value1, value2, pollutant_arg, badge1, tier1, tier2>>

dashVars == <<csv, cache, df, widgets, dff, kpi, cards, message, trace, outcome>>
classifyVars == <<value1, value2, pollutant_arg, badge1, tier1, tier2>>

(***************************************************************************)
(* Bounds of the model.                                                    *)
(***************************************************************************)
MaxRows == 3          \* rows of the data file
MaxDen == 2           \* classifier arguments are n/d with d in 1..MaxDen
MaxNum == 52          \* ... and n in -MinNum..MaxNum
MinNum == 2

(***************************************************************************)
(* Floats.                                                                 *)
(***************************************************************************)
Rat(n, d) == [kind |-> "num", n |-> n, d |-> d]
NaN == [kind |-> "num", n |-> 0, d |-> 0]
\* a cell of the file that does not parse as a number
Text == [kind |-> "text", n |-> 0, d |-> 0]
None == <<>>
Some(x) == <<x>>

Abs(x) == IF x < 0 THEN -x ELSE x

RECURSIVE Gcd(_, _)
Gcd(a, b) == IF b = 0 THEN a ELSE Gcd(b, a % b)

\* the canonical representative of n/d (d > 0)
Norm(n, d) ==
    LET g == Gcd(Abs(n), d)
    IN  Rat(n \div g, d \div g)

isna(x) == x.d = 0
Leq(x, y) == x.n * y.d <= y.n * x.d          \* x <= y, both not NaN
Gt(x, y) == x.n * y.d > y.n * x.d            \* x > y, both not NaN
Times(k, x) == IF isna(x) THEN NaN ELSE Norm(k * x.n, x.d)

(***************************************************************************)
(* utils.py: the two classifiers.  A badge is the emoji followed by the    *)
(* label; the bare "white circle" badge has no label.                      *)
(***************************************************************************)
Badge(emoji, label) == <<emoji, label>>
BareBadge(emoji) == <<emoji>>
\* the text after the emoji of a badge
BadgeLabel(b) == IF Len(b) > 1 THEN b[2] ELSE ""

risk_badge(value, pollutant_col) ==
    IF isna(value) THEN Badge("white", "N/A")
    ELSE IF pollutant_col = "pm25_concentration" THEN
        IF Leq(value, Rat(5, 1)) THEN Badge("green", "Safe")
        ELSE IF Leq(value, Rat(15, 1)) THEN Badge("yellow", "Moderate")
        ELSE IF Leq(value, Rat(35, 1)) THEN Badge("orange", "High")
        ELSE Badge("red", "Very high")
    ELSE IF pollutant_col = "pm10_concentration" THEN
        IF Leq(value, Rat(15, 1)) THEN Badge("green", "Safe")
        ELSE IF Leq(value, Rat(30, 1)) THEN Badge("yellow", "Moderate")
        ELSE IF Leq(value, Rat(50, 1)) THEN Badge("orange", "High")
        ELSE Badge("red", "Very high")
    ELSE IF pollutant_col = "no2_concentration" THEN
        IF Leq(value, Rat(10, 1)) THEN Badge("green", "Safe")
        ELSE IF Leq(value, Rat(20, 1)) THEN Badge("yellow", "Moderate")
        ELSE IF Leq(value, Rat(40, 1)) THEN Badge("orange", "High")
        ELSE Badge("red", "Very high")
    ELSE BareBadge("white")

\* _risk_tier with a strict comparison at the Safe bound
risk_tier_strict(value, pollutant_col) ==
    IF isna(value) THEN "N/A"
    ELSE IF pollutant_col = "pm25_concentration" THEN
        IF Gt(Rat(5, 1), value) THEN "Safe"
        ELSE IF Leq(value, Rat(15, 1)) THEN "Moderate"
        ELSE IF Leq(value, Rat(35, 1)) THEN "High" ELSE "Very high"
    ELSE IF pollutant_col = "pm10_concentration" THEN
        IF Leq(value, Rat(15, 1)) THEN "Safe"
        ELSE IF Leq(value, Rat(30, 1)) THEN "Moderate"
        ELSE IF Leq(value, Rat(50, 1)) THEN "High" ELSE "Very high"
    ELSE IF pollutant_col = "no2_concentration" THEN
        IF Leq(value, Rat(10, 1)) THEN "Safe"
        ELSE IF Leq(value, Rat(20, 1)) THEN "Moderate"
        ELSE IF Leq(value, Rat(40, 1)) THEN "High" ELSE "Very high"
    ELSE "N/A"

\* _risk_tier with the Moderate and High labels of NO2 exchanged
risk_tier_swapped(value, pollutant_col) ==
    IF isna(value) THEN "N/A"
    ELSE IF pollutant_col = "pm25_concentration" THEN
        IF Leq(value, Rat(5, 1)) THEN "Safe"
        ELSE IF Leq(value, Rat(15, 1)) THEN "Moderate"
        ELSE IF Leq(value, Rat(35, 1)) THEN "High" ELSE "Very high"
    ELSE IF pollutant_col = "pm10_concentration" THEN
        IF Leq(value, Rat(15, 1)) THEN "Safe"
        ELSE IF Leq(value, Rat(30, 1)) THEN "Moderate"
        ELSE IF Leq(value, Rat(50, 1)) THEN "High" ELSE "Very high"
    ELSE IF pollutant_col = "no2_concentration" THEN
        IF Leq(value, Rat(10, 1)) THEN "Safe"
        ELSE IF Leq(value, Rat(20, 1)) THEN "High"
        ELSE IF Leq(value, Rat(40, 1)) THEN "Moderate" ELSE "Very high"
    ELSE "N/A"

_risk_tier(value, pollutant_col) ==
    IF isna(value) THEN "N/A"
    ELSE IF pollutant_col = "pm25_concentration" THEN
        IF Leq(value, Rat(5, 1)) THEN "Safe"
        ELSE IF Leq(value, Rat(15, 1)) THEN "Moderate"
        ELSE IF Leq(value, Rat(35, 1)) THEN "High" ELSE "Very high"
    ELSE IF pollutant_col = "pm10_concentration" THEN
        IF Leq(value, Rat(15, 1)) THEN "Safe"
        ELSE IF Leq(value, Rat(30, 1)) THEN "Moderate"
        ELSE IF Leq(value, Rat(50, 1)) THEN "High" ELSE "Very high"
    ELSE IF pollutant_col = "no2_concentration" THEN
        IF Leq(value, Rat(10, 1)) THEN "Safe"
        ELSE IF Leq(value, Rat(20, 1)) THEN "Moderate"
        ELSE IF Leq(value, Rat(40, 1)) THEN "High" ELSE "Very high"
    ELSE "N/A"

(***************************************************************************)
(* page_dashboard.py: constants.                                           *)
(***************************************************************************)
WHO_LIMITS(pollutant_col) ==
    CASE pollutant_col = "pm25_concentration" -> Rat(5, 1)
      [] pollutant_col = "pm10_concentration" -> Rat(15, 1)
      [] pollutant_col = "no2_concentration" -> Rat(10, 1)

pollutant_friendly == {"PM2.5", "PM10", "NO2"}

pollutant_map(choice) ==
    CASE choice = "PM2.5" -> "pm25_concentration"
      [] choice = "PM10" -> "pm10_concentration"
      [] choice = "NO2" -> "no2_concentration"

PollutantColumns == {"pm25_concentration", "pm10_concentration", "no2_concentration"}

(***************************************************************************)
(* The data file.  A frame is its set of columns and its rows in file      *)
(* order; the pandas index label of row i (1-based here) is i - 1.         *)
(***************************************************************************)
needed ==
    {"who_region", "iso3", "country_name", "year",
     "pm25_concentration", "pm10_concentration", "no2_concentration"}

AllColumns == needed \cup {"population"}

Range(s) == {s[i] : i \in 1..Len(s)}

Obs(country, iso3, region, year, pm25, pm10, no2) ==
    [who_region |-> region, iso3 |-> iso3, country_name |-> country,
     year |-> year, pm25_concentration |-> pm25, pm10_concentration |-> pm10,
     no2_concentration |-> no2, population |-> Rat(1, 1)]

\* The observations a data file is made of.  Around each WHO limit there is
\* a value below and one above it whose mean is the limit itself; there are
\* equal values in different rows, missing and non-numeric cells, a row
\* without country name, one without region and one without year.
Observations ==
    { Obs("Aland", "ALA", "Africa", Rat(2010, 1), Rat(4, 1), Rat(14, 1), Rat(9, 1)),
      Obs("Aland", "ALA", "Africa", Rat(2011, 1), Rat(6, 1), Rat(16, 1), Rat(11, 1)),
      Obs("Borduria", "BOR", "Europe", Rat(2010, 1), Rat(6, 1), Rat(16, 1), Rat(11, 1)),
      Obs("Borduria", "BOR", "Europe", Rat(2011, 1), NaN, Rat(40, 1), Text),
      Obs("Borduria", "BOR", "Europe", Rat(2010, 1), Rat(4, 1), NaN, Rat(9, 1)),
      Obs("NaN", "COR", "Africa", Rat(2010, 1), Rat(50, 1), Rat(60, 1), Rat(45, 1)),
      Obs("Aland", "ALA", "NaN", Rat(2011, 1), Rat(36, 1), Rat(10, 1), NaN),
      Obs("Borduria", "BOR", "Europe", Rat(2011, 1), NaN, NaN, NaN),
      Obs("Aland", "ALA", "Africa", NaN, Rat(4, 1), Rat(14, 1), Rat(9, 1)) }

EmptyFrame == [columns |-> {}, rows |-> <<>>]

Project(row, columns) == [c \in columns |-> row[c]]

\* the files the model reads: every file of up to MaxRows observations with
\* the seven required columns, and one-row files with any set of columns
FullFiles ==
    { [columns |-> needed, rows |-> [i \in 1..k |-> Project(r[i], needed)]] :
        k \in 0..MaxRows, r \in [1..MaxRows -> Observations] }

PartialFiles ==
    { [columns |-> cols,
       rows |-> <<Project(Obs("Aland", "ALA", "Africa", Rat(2010, 1), Rat(4, 1),
                              Rat(14, 1), Rat(9, 1)), cols)>>] :
        cols \in SUBSET AllColumns }

Files == FullFiles \cup PartialFiles

(***************************************************************************)
(* utils.py: load_data, ensure_columns, available_years.                   *)
(***************************************************************************)
NotLoaded == [loaded |-> FALSE, frame |-> EmptyFrame]

\* @st.cache_data hands out the memoized value as a new copy on a hit
load_data_shared == IF cache.loaded THEN df ELSE csv

load_data == IF cache.loaded THEN cache.frame ELSE csv

Perms(S) ==
    { f \in [1..Cardinality(S) -> S] :
        \A i, j \in 1..Cardinality(S) : i # j => f[i] # f[j] }

\* ensure_columns with the list built from all of needed
ensure_columns_all(frame) ==
    IF needed \subseteq frame.columns THEN {<<>>} ELSE Perms(needed)

\* The lists `missing` can be: needed is a Python set, so the comprehension
\* visits it in an order that differs from process to process.
ensure_columns(frame) == Perms({c \in needed : c \notin frame.columns})

\* available_years: int(y.min()) of a frame without rows is int(nan), which raises
available_years_raises(frame) == Len(frame.rows) = 0

(***************************************************************************)
(* page_dashboard.py lines 40-43: type coercion.                           *)
(***************************************************************************)
\* Series.astype(int) raises on a year that is missing or not a number
astype_int_raises(frame) ==
    \E i \in 1..Len(frame.rows) :
        frame.rows[i]["year"].kind # "num" \/ isna(frame.rows[i]["year"])

astype_int(cell) == Rat(cell.n \div cell.d, 1)

\* pd.to_numeric(errors="coerce")
to_numeric(cell) == IF cell.kind = "num" THEN cell ELSE NaN

coerce_row(row) ==
    [c \in DOMAIN row |->
        IF c = "year" THEN astype_int(row[c])
        ELSE IF c \in PollutantColumns THEN to_numeric(row[c])
        ELSE row[c]]

coerce_types(frame) ==
    [columns |-> frame.columns,
     rows |-> [i \in 1..Len(frame.rows) |-> coerce_row(frame.rows[i])]]

(***************************************************************************)
(* page_dashboard.py lines 45-63: the sidebar widgets.                     *)
(***************************************************************************)
\* sorted(df["year"].unique().tolist()), as the set of its elements
year_options(frame) == {frame.rows[i]["year"].n : i \in 1..Len(frame.rows)}

\* ["Global"] + sorted(df["who_region"].dropna().unique().tolist())
regions(frame) ==
    {"Global"} \cup ({frame.rows[i]["who_region"] : i \in 1..Len(frame.rows)} \ {"NaN"})

DefaultWidgets == [years |-> None, region |-> "Global", pollutant |-> "PM2.5"]

\* st.sidebar.multiselect: the stored selection, or default=year_options
multiselect(w, options) == IF w.years = None THEN options ELSE w.years[1]

(***************************************************************************)
(* page_dashboard.py lines 65-68: the filter.  A subset is the sequence of *)
(* the kept rows, each with the index label it has in df.                  *)
(***************************************************************************)
mask_year(frame, selected_years, i) == frame.rows[i]["year"].n \in selected_years

\* mask_region that compares a missing region equal to nothing but keeps it
mask_region_keep_na(frame, selected_region, i) ==
    \/ selected_region = "Global"
    \/ frame.rows[i]["who_region"] = selected_region
    \/ frame.rows[i]["who_region"] = "NaN"

\* NaN == selected_region is False, so a row without region is kept only by True
mask_region(frame, selected_region, i) ==
    IF selected_region = "Global" THEN TRUE
    ELSE frame.rows[i]["who_region"] # "NaN"
         /\ frame.rows[i]["who_region"] = selected_region

RECURSIVE loc(_, _, _, _)
loc(frame, selected_years, selected_region, i) ==
    IF i > Len(frame.rows) THEN <<>>
    ELSE (IF mask_year(frame, selected_years, i) /\ mask_region(frame, selected_region, i)
          THEN <<[label |-> i - 1, row |-> frame.rows[i]]>>
          ELSE <<>>)
         \o loc(frame, selected_years, selected_region, i + 1)

apply_filters(frame, selected_years, selected_region) ==
    loc(frame, selected_years, selected_region, 1)

(***************************************************************************)
(* page_dashboard.py lines 70-101: the KPI aggregates.                     *)
(***************************************************************************)
\* dff[col].values
Column(sub, col) == [i \in 1..Len(sub) |-> sub[i].row[col]]

\* the positions that hold a value
Valid(values) == {i \in 1..Len(values) : ~isna(values[i])}

Add(x, y) == Norm(x.n * y.d + y.n * x.d, x.d * y.d)

RECURSIVE SumOver(_, _)
SumOver(values, I) ==
    IF I = {} THEN Rat(0, 1)
    ELSE LET i == CHOOSE j \in I : TRUE
         IN  Add(values[i], SumOver(values, I \ {i}))

Divide(sum, count) == Norm(sum.n, sum.d * count)

mean_over(values, valid) ==
    IF valid = {} THEN NaN ELSE Divide(SumOver(values, valid), Cardinality(valid))

\* np.nanmean, and Series.mean with skipna: NaN when no value is left
nanmean(values) == mean_over(values, Valid(values))

\* line 71
annual_mean_of(sub, col) == IF Len(sub) # 0 THEN nanmean(Column(sub, col)) ELSE NaN

\* dff.groupby("country_name", dropna=True): the group keys
group_keys(sub) == {sub[i].row["country_name"] : i \in 1..Len(sub)} \ {"NaN"}

\* the pollutant values of one group, in subset order
group_values(sub, col, key) ==
    Column(SelectSeq(sub, LAMBDA e : e.row["country_name"] = key), col)

\* Series.dropna()
dropna(series) == [k \in {j \in DOMAIN series : ~isna(series[j])} |-> series[k]]

\* lines 74-78: the mean of each country, countries without a value dropped
country_mean_of(sub, col) ==
    dropna([k \in group_keys(sub) |-> nanmean(group_values(sub, col, k))])

\* lines 79-83 with >= in place of >
pct_above_or_equal(country_mean, limit) ==
    IF DOMAIN country_mean = {} THEN NaN
    ELSE Norm(100 * Cardinality({k \in DOMAIN country_mean : Leq(limit, country_mean[k])}),
              Cardinality(DOMAIN country_mean))

\* lines 79-83: 100.0 * (country_mean > limit).mean()
pct_above(country_mean, limit) ==
    IF DOMAIN country_mean = {} THEN NaN
    ELSE Norm(100 * Cardinality({k \in DOMAIN country_mean : Gt(country_mean[k], limit)}),
              Cardinality(DOMAIN country_mean))

pct_exceed_of(sub, col) == pct_above(country_mean_of(sub, col), WHO_LIMITS(col))

\* Series.idxmax / idxmin raise ValueError on a Series without elements.
\* On a Series that has elements, all of them missing, they return NaN (with
\* a warning) in pandas 1 and 2, which is what the pd.notna(idx_max) tests
\* of lines 87-89 and 93-95 are written for.
idx_raises(sub) == Len(sub) = 0

\* the NaN that idxmax / idxmin return for a Series of missing values, or
\* the label at a position
label_at(sub, pos) == IF pos = 0 THEN None ELSE Some(sub[pos].label)

\* argmax that resolves equal values to the last position
argmax_last(values, valid) ==
    IF valid = {} THEN 0
    ELSE CHOOSE i \in valid :
            /\ \A j \in valid : Leq(values[j], values[i])
            /\ \A j \in valid : j > i => values[j] # values[i]

\* position of the first occurrence of the maximum among the valid ones
argmax(values, valid) ==
    IF valid = {} THEN 0
    ELSE CHOOSE i \in valid :
            /\ \A j \in valid : Leq(values[j], values[i])
            /\ \A j \in valid : j < i => values[j] # values[i]

\* position of the first occurrence of the minimum among the valid ones
argmin(values, valid) ==
    IF valid = {} THEN 0
    ELSE CHOOSE i \in valid :
            /\ \A j \in valid : Leq(values[i], values[j])
            /\ \A j \in valid : j < i => values[j] # values[i]

\* Series.idxmax(), NaN skipped
idxmax_of(sub, values) == label_at(sub, argmax(values, Valid(values)))

idxmax(sub, col) == idxmax_of(sub, Column(sub, col))

\* Series.idxmin(), NaN skipped
idxmin_of(sub, values) == label_at(sub, argmin(values, Valid(values)))

idxmin(sub, col) == idxmin_of(sub, Column(sub, col))

\* dff.at[label, col]
at(sub, label, col) == (CHOOSE e \in Range(sub) : e.label = label).row[col]

\* np.nanmax / np.nanmin raise ValueError on an array without elements
nan_extreme_raises(sub) == Len(sub) = 0

max_over(values, valid) ==
    IF valid = {} THEN NaN
    ELSE values[CHOOSE i \in valid : \A j \in valid : Leq(values[j], values[i])]

min_over(values, valid) ==
    IF valid = {} THEN NaN
    ELSE values[CHOOSE i \in valid : \A j \in valid : Leq(values[i], values[j])]

\* np.nanmax: NaN (with a warning) when every element is NaN
nanmax(values) == max_over(values, Valid(values))

\* np.nanmin
nanmin(values) == min_over(values, Valid(values))

\* the variables of lines 70-101 before they are assigned
KpiUnset ==
    [annual_mean |-> NaN, pct_exceed |-> NaN,
     idx_max |-> None, worst_country |-> None, worst_value |-> NaN, worst_year |-> None,
     idx_min |-> None, best_country |-> None, best_value |-> NaN, best_year |-> None,
     worst_case_value |-> NaN, best_case_value |-> NaN]

\* lines 87-89 and 93-95, given idx_max or idx_min
performer(sub, col, idx) ==
    [country |-> IF idx # None THEN Some(at(sub, idx[1], "country_name")) ELSE None,
     value |-> IF idx # None THEN at(sub, idx[1], col) ELSE NaN,
     year |-> IF idx # None THEN Some(at(sub, idx[1], "year").n) ELSE None]

kpi_record(mean, pct, idx_max, worst, idx_min, best, worst_case, best_case) ==
    [annual_mean |-> mean, pct_exceed |-> pct,
     idx_max |-> idx_max, worst_country |-> worst.country,
     worst_value |-> worst.value, worst_year |-> worst.year,
     idx_min |-> idx_min, best_country |-> best.country,
     best_value |-> best.value, best_year |-> best.year,
     worst_case_value |-> worst_case, best_case_value |-> best_case]

\* lines 70-101 when no statement raises
kpi_of(sub, col, idx_max, idx_min) ==
    kpi_record(annual_mean_of(sub, col), pct_exceed_of(sub, col),
               idx_max, performer(sub, col, idx_max),
               idx_min, performer(sub, col, idx_min),
               nanmax(Column(sub, col)), nanmin(Column(sub, col)))

\* Lines 70-101 in order.  The result tells whether a statement raised, the
\* statements executed and the variables assigned until then.
aggregate(sub, col) ==
    IF idx_raises(sub)
    THEN [raised |-> TRUE,
          kpi |-> [KpiUnset EXCEPT !.annual_mean = annual_mean_of(sub, col),
                                   !.pct_exceed = pct_exceed_of(sub, col)],
          trace |-> <<"annual_mean", "pct_exceed", "idxmax">>]
    ELSE IF nan_extreme_raises(sub)
    THEN [raised |-> TRUE,
          kpi |-> [kpi_of(sub, col, idxmax(sub, col), idxmin(sub, col))
                      EXCEPT !.worst_case_value = NaN, !.best_case_value = NaN],
          trace |-> <<"annual_mean", "pct_exceed", "idxmax", "worst",
                      "idxmin", "best", "nanmax">>]
    ELSE [raised |-> FALSE,
          kpi |-> kpi_of(sub, col, idxmax(sub, col), idxmin(sub, col)),
          trace |-> <<"annual_mean", "pct_exceed", "idxmax", "worst",
                      "idxmin", "best", "nanmax", "nanmin">>]

(***************************************************************************)
(* page_dashboard.py lines 103-179: the badges of the KPI cards.           *)
(***************************************************************************)
\* lines 122-129
exceed_badge(pct_exceed) ==
    IF isna(pct_exceed) THEN Badge("white", "N/A")
    ELSE IF ~Leq(Rat(25, 1), pct_exceed) THEN Badge("green", "Low")
    ELSE IF Leq(pct_exceed, Rat(75, 1)) THEN Badge("yellow", "Mixed")
    ELSE Badge("red", "Widespread")

NoCards ==
    [mean_badge |-> None, exceed_badge |-> None, worst_iso3 |-> None,
     best_iso3 |-> None, worst_case_badge |-> None, best_case_badge |-> None]

kpi_cards(sub, col, k) ==
    [mean_badge |-> risk_badge(k.annual_mean, col),
     exceed_badge |-> exceed_badge(k.pct_exceed),
     worst_iso3 |-> IF k.worst_country = None THEN None
                    ELSE Some(at(sub, k.idx_max[1], "iso3")),
     best_iso3 |-> IF k.best_country = None THEN None
                   ELSE Some(at(sub, k.idx_min[1], "iso3")),
     worst_case_badge |-> risk_badge(k.worst_case_value, col),
     best_case_badge |-> risk_badge(k.best_case_value, col)]

(***************************************************************************)
(* page_dashboard.py lines 36-179: one execution of the page script on the *)
(* frame load_data returned, with the widget state w and the list that     *)
(* ensure_columns built.  st.stop() and an uncaught exception both end the *)
(* run; widgets the run did not reach lose their state.                    *)
(***************************************************************************)
NoMessage == [kind |-> "none", missing |-> <<>>]

Result(o, tr, msg, frame, sub, k, c, w) ==
    [outcome |-> o, trace |-> tr, message |-> msg, df |-> frame, dff |-> sub,
     kpi |-> k, cards |-> c, widgets |-> w]

ToWidgets ==
    <<"load_data", "ensure_columns", "astype", "to_numeric", "available_years",
      "multiselect">>

ToFilter == ToWidgets \o <<"selectbox_region", "selectbox_pollutant", "apply_filters">>

\* lines 103-179, or the end of the run where line 86 or 98 raised
after_aggregate(frame, shown, sub, col, agg) ==
    IF agg.raised
    THEN Result("raised", ToFilter \o agg.trace, NoMessage, frame, sub, agg.kpi,
                NoCards, shown)
    ELSE Result("rendered", ToFilter \o agg.trace \o <<"kpi_cards">>, NoMessage,
                frame, sub, agg.kpi, kpi_cards(sub, col, agg.kpi), shown)

\* lines 70-179
after_filter(frame, shown, sub, col) ==
    after_aggregate(frame, shown, sub, col, aggregate(sub, col))

\* lines 57-179, the year selection not empty
after_year_check(frame, w, selected_years) ==
    after_filter(frame,
                 [years |-> Some(selected_years), region |-> w.region,
                  pollutant |-> w.pollutant],
                 apply_filters(frame, selected_years, w.region),
                 pollutant_map(w.pollutant))

\* lines 53-179 without the check of lines 53-55
after_multiselect_unchecked(frame, w, selected_years) ==
    after_year_check(frame, w, selected_years)

\* lines 53-179
after_multiselect(frame, w, selected_years) ==
    IF selected_years = {}
    THEN Result("invalid_selection", ToWidgets \o <<"st.warning", "st.stop">>,
                [kind |-> "warning", missing |-> <<>>],
                frame, <<>>, KpiUnset, NoCards,
                [DefaultWidgets EXCEPT !.years = Some({})])
    ELSE after_year_check(frame, w, selected_years)

\* lines 47-179
after_coercion(frame, w) ==
    IF available_years_raises(frame)
    THEN Result("raised",
                <<"load_data", "ensure_columns", "astype", "to_numeric", "available_years">>,
                NoMessage, frame, <<>>, KpiUnset, NoCards, DefaultWidgets)
    ELSE after_multiselect(frame, w, multiselect(w, year_options(frame)))

\* lines 37-179
page_dashboard(data, w, missing) ==
    IF missing # <<>>
    THEN Result("missing_columns", <<"load_data", "ensure_columns", "st.error", "st.stop">>,
                [kind |-> "error", missing |-> missing],
                data, <<>>, KpiUnset, NoCards, DefaultWidgets)
    ELSE IF astype_int_raises(data)
    THEN Result("raised", <<"load_data", "ensure_columns", "astype">>, NoMessage,
                data, <<>>, KpiUnset, NoCards, DefaultWidgets)
    ELSE after_coercion(coerce_types(data), w)

(***************************************************************************)
(* Spec: the dashboard session.                                            *)
(***************************************************************************)
Init ==
    /\ csv \in Files
    /\ cache = NotLoaded
    /\ df = EmptyFrame
    /\ widgets = DefaultWidgets
    /\ dff = <<>>
    /\ kpi = KpiUnset
    /\ cards = NoCards
    /\ message = NoMessage
    /\ trace = <<>>
    /\ outcome = "not_run"
    /\ value1 = NaN /\ value2 = NaN /\ pollutant_arg = ""
    /\ badge1 = <<>> /\ tier1 = "" /\ tier2 = ""

\* the variables a run leaves behind
Commit(r) ==
    /\ df' = r.df
    /\ widgets' = r.widgets
    /\ dff' = r.dff
    /\ kpi' = r.kpi
    /\ cards' = r.cards
    /\ message' = r.message
    /\ trace' = r.trace
    /\ outcome' = r.outcome

\* one execution of the script, the widgets holding w
Run(w) ==
    \E missing \in ensure_columns(load_data) :
        /\ cache' = [loaded |-> TRUE, frame |-> load_data]
        /\ Commit(page_dashboard(load_data, w, missing))
        /\ UNCHANGED <<csv, classifyVars>>

\* the page is opened
FirstRun ==
    /\ outcome = "not_run"
    /\ Run(widgets)

\* the user changes the year multiselect, which the last run displayed
ChangeYears ==
    /\ "multiselect" \in Range(trace)
    /\ \E Y \in SUBSET year_options(df) :
        /\ Some(Y) # widgets.years
        /\ Run([widgets EXCEPT !.years = Some(Y)])

\* the user picks another WHO region
ChangeRegion ==
    /\ "selectbox_region" \in Range(trace)
    /\ \E r \in regions(df) :
        /\ r # widgets.region
        /\ Run([widgets EXCEPT !.region = r])

\* the user picks another pollutant
ChangePollutant ==
    /\ "selectbox_pollutant" \in Range(trace)
    /\ \E p \in pollutant_friendly :
        /\ p # widgets.pollutant
        /\ Run([widgets EXCEPT !.pollutant = p])

Next == FirstRun \/ ChangeYears \/ ChangeRegion \/ ChangePollutant

Spec == Init /\ [][Next]_vars

(***************************************************************************)
(* SpecClassify: the classifiers applied to drawn arguments.               *)
(***************************************************************************)
ClassifierValues ==
    {NaN, Rat(-1000000, 1), Rat(1000000, 1)}
    \cup {Rat(n, d) : n \in (-MinNum)..MaxNum, d \in 1..MaxDen}

ClassifierColumns == PollutantColumns \cup {"o3_concentration", "PM2.5"}

InitClassify ==
    /\ value1 \in ClassifierValues
    /\ value2 \in ClassifierValues
    /\ pollutant_arg \in ClassifierColumns
    /\ badge1 = <<>> /\ tier1 = "" /\ tier2 = ""
    /\ csv = EmptyFrame
    /\ cache = NotLoaded
    /\ df = EmptyFrame
    /\ widgets = DefaultWidgets
    /\ dff = <<>>
    /\ kpi = KpiUnset
    /\ cards = NoCards
    /\ message = NoMessage
    /\ trace = <<>>
    /\ outcome = "not_run"

Classify ==
    /\ badge1 = <<>>
    /\ badge1' = risk_badge(value1, pollutant_arg)
    /\ tier1' = _risk_tier(value1, pollutant_arg)
    /\ tier2' = _risk_tier(value2, pollutant_arg)
    /\ UNCHANGED <<value1, value2, pollutant_arg, dashVars>>

NextClassify == Classify

SpecClassify == InitClassify /\ [][NextClassify]_vars

(***************************************************************************)
(* Properties of the classifiers, checked under SpecClassify.              *)
(***************************************************************************)
called == badge1 # <<>>

\* the breakpoint table: Safe, Moderate and High upper bounds
Breakpoints(pollutant_col) ==
    CASE pollutant_col = "pm25_concentration" -> <<5, 15, 35>>
      [] pollutant_col = "pm10_concentration" -> <<15, 30, 50>>
      [] pollutant_col = "no2_concentration" -> <<10, 20, 40>>

TableTier(v, b) ==
    IF v.n <= b[1] * v.d THEN "Safe"
    ELSE IF v.n <= b[2] * v.d THEN "Moderate"
    ELSE IF v.n <= b[3] * v.d THEN "High"
    ELSE "Very high"

Severity(tier) ==
    CASE tier = "Safe" -> 1
      [] tier = "Moderate" -> 2
      [] tier = "High" -> 3
      [] tier = "Very high" -> 4
      [] OTHER -> 0

\* C1: for the three pollutants and every value that is not missing,
\* _risk_tier returns the tier of the breakpoint table with inclusive upper
\* bounds (and risk_badge carries the same label), and the value is Safe
\* exactly when it is at most the WHO limit.
C1_BreakpointTable ==
    (called /\ pollutant_arg \in PollutantColumns /\ ~isna(value1)) =>
        /\ tier1 = TableTier(value1, Breakpoints(pollutant_arg))
        /\ BadgeLabel(badge1) = TableTier(value1, Breakpoints(pollutant_arg))
        /\ (tier1 = "Safe") <=> Leq(value1, WHO_LIMITS(pollutant_arg))

\* a value exactly on the Safe bound of PM10, and one just above it
C1_Witness ==
    /\ called
    /\ pollutant_arg = "pm10_concentration"
    /\ value1 = Rat(15, 1) /\ tier1 = "Safe"
    /\ value2 = Rat(31, 2) /\ tier2 = "Moderate"

\* C8: for the three pollutants every value that is not missing gets one of
\* the four tiers, and a larger value never gets a less severe tier.
C8_TotalAndMonotone ==
    (called /\ pollutant_arg \in PollutantColumns /\ ~isna(value1) /\ ~isna(value2)) =>
        /\ Severity(tier1) \in 1..4
        /\ Severity(tier2) \in 1..4
        /\ Leq(value1, value2) => Severity(tier1) <= Severity(tier2)

\* a large negative and a large positive value
C8_Witness ==
    /\ called
    /\ pollutant_arg = "no2_concentration"
    /\ value1 = Rat(-1000000, 1) /\ tier1 = "Safe"
    /\ value2 = Rat(1000000, 1) /\ tier2 = "Very high"

\* C10: for every pollutant column name and every value, missing or not,
\* the label of risk_badge(value, pollutant) equals _risk_tier(value, pollutant).
C10_SameClassifier == called => BadgeLabel(badge1) = tier1

(***************************************************************************)
(* Properties of the dashboard, checked under Spec.                        *)
(***************************************************************************)
ran(statement) == statement \in Range(trace)

RequiredColumns ==
    {"who_region", "iso3", "country_name", "year",
     "pm25_concentration", "pm10_concentration", "no2_concentration"}

selected_col == pollutant_map(widgets.pollutant)

\* positions of dff that hold a value of the selected pollutant
HasValue == {e \in 1..Len(dff) : ~isna(dff[e].row[selected_col])}

\* C2: when the filtered subset is empty or has only missing values of the
\* selected pollutant, the aggregation completes and every aggregate is
\* Not-Available: the six numbers are NaN, the worst and best country and
\* year are None, and the badge of the mean is labelled N/A.
C2_NoDataIsNotAvailable ==
    (ran("apply_filters") /\ HasValue = {}) =>
        /\ outcome = "rendered"
        /\ isna(kpi.annual_mean) /\ isna(kpi.pct_exceed)
        /\ isna(kpi.worst_value) /\ isna(kpi.best_value)
        /\ isna(kpi.worst_case_value) /\ isna(kpi.best_case_value)
        /\ kpi.worst_country = None /\ kpi.worst_year = None
        /\ kpi.best_country = None /\ kpi.best_year = None
        /\ BadgeLabel(cards.mean_badge) = "N/A"

\* C3: a run that finds the year selection empty shows a warning and stops:
\* it filters nothing, computes no aggregate and builds no card.
C3_EmptySelectionStops ==
    (outcome # "not_run" /\ widgets.years = Some({})) =>
        /\ outcome = "invalid_selection"
        /\ message.kind = "warning"
        /\ trace[Len(trace)] = "st.stop"
        /\ ~ran("apply_filters") /\ ~ran("annual_mean") /\ ~ran("pct_exceed")
        /\ ~ran("idxmax") /\ ~ran("kpi_cards")
        /\ dff = <<>> /\ kpi = KpiUnset /\ cards = NoCards

C3_Witness ==
    /\ outcome = "invalid_selection"
    /\ widgets.years = Some({})
    /\ Len(df.rows) = MaxRows

\* C4: the run halts in ensure_columns exactly when a required column is
\* absent from the file; the error lists the absent required columns, each
\* once and no other; nothing is coerced, filtered or aggregated afterwards.
C4_MissingColumnsHalt ==
    outcome # "not_run" =>
        /\ (outcome = "missing_columns") <=> (RequiredColumns \ csv.columns # {})
        /\ outcome = "missing_columns" =>
            /\ message.kind = "error"
            /\ Range(message.missing) = RequiredColumns \ csv.columns
            /\ Len(message.missing) = Cardinality(RequiredColumns \ csv.columns)
            /\ trace[Len(trace)] = "st.stop"
            /\ ~ran("astype") /\ ~ran("to_numeric") /\ ~ran("apply_filters")
            /\ ~ran("annual_mean")
            /\ df = csv /\ dff = <<>> /\ kpi = KpiUnset /\ cards = NoCards

\* the file that lacks no2_concentration only
C4_Witness ==
    /\ outcome = "missing_columns"
    /\ csv.columns = AllColumns \ {"no2_concentration"}
    /\ message.missing = <<"no2_concentration">>

\* C5: the filtered subset holds exactly the rows of the frame whose year is
\* selected and, unless the region is "Global", whose who_region is the
\* selected region (a row without region is kept only under "Global"), in
\* file order, each once and unaltered.
C5_FilterExact ==
    ran("apply_filters") =>
        /\ widgets.years # Some({})
        /\ \A i \in 1..Len(df.rows) :
            (\E e \in 1..Len(dff) : dff[e].label = i - 1) <=>
                /\ df.rows[i]["year"].n \in widgets.years[1]
                /\ \/ widgets.region = "Global"
                   \/ /\ df.rows[i]["who_region"] # "NaN"
                      /\ df.rows[i]["who_region"] = widgets.region
        /\ \A e \in 1..Len(dff) :
            /\ dff[e].label + 1 \in 1..Len(df.rows)
            /\ dff[e].row = df.rows[dff[e].label + 1]
        /\ \A e1, e2 \in 1..Len(dff) : e1 < e2 => dff[e1].label < dff[e2].label

\* a region is selected, a row without region has a selected year, and the
\* subset keeps some rows and drops others
C5_Witness ==
    /\ ran("apply_filters")
    /\ widgets.region # "Global"
    /\ \E i \in 1..Len(df.rows) :
        /\ df.rows[i]["who_region"] = "NaN"
        /\ df.rows[i]["year"].n \in widgets.years[1]
    /\ Len(dff) > 0 /\ Len(dff) < Len(df.rows)

\* the countries of dff that have a value of the selected pollutant
CountriesWithValue == {dff[e].row["country_name"] : e \in HasValue} \ {"NaN"}

ValuesOf(country) == {e \in HasValue : dff[e].row["country_name"] = country}

ColumnSum(cells) == SumOver(Column(dff, selected_col), cells)

\* the mean of the country's values is greater than the WHO limit
MeanExceeds(country) ==
    Gt(ColumnSum(ValuesOf(country)),
       Times(Cardinality(ValuesOf(country)), WHO_LIMITS(selected_col)))

MeanEqualsLimit(country) ==
    ColumnSum(ValuesOf(country))
        = Times(Cardinality(ValuesOf(country)), WHO_LIMITS(selected_col))

IsMax(e) == \A f \in HasValue : Leq(dff[f].row[selected_col], dff[e].row[selected_col])
IsMin(e) == \A f \in HasValue : Leq(dff[e].row[selected_col], dff[f].row[selected_col])

\* C7: when the subset has a value of the selected pollutant, the worst
\* (best) performer is the first row of the subset that holds the maximum
\* (minimum) of the values, and worst_case_value (best_case_value) equals
\* the value of that row.
C7_ExtremesAgree ==
    (ran("apply_filters") /\ HasValue # {}) =>
        /\ outcome = "rendered"
        /\ kpi.worst_case_value = kpi.worst_value
        /\ kpi.best_case_value = kpi.best_value
        /\ \E e \in HasValue :
            /\ IsMax(e) /\ \A f \in HasValue : (IsMax(f) => e <= f)
            /\ kpi.idx_max = Some(dff[e].label)
            /\ kpi.worst_value = dff[e].row[selected_col]
            /\ kpi.worst_country = Some(dff[e].row["country_name"])
            /\ kpi.worst_year = Some(dff[e].row["year"].n)
        /\ \E e \in HasValue :
            /\ IsMin(e) /\ \A f \in HasValue : (IsMin(f) => e <= f)
            /\ kpi.idx_min = Some(dff[e].label)
            /\ kpi.best_value = dff[e].row[selected_col]
            /\ kpi.best_country = Some(dff[e].row["country_name"])
            /\ kpi.best_year = Some(dff[e].row["year"].n)

\* the maximum occurs in two rows, after a row with a missing value
C7_Witness ==
    /\ outcome = "rendered"
    /\ Len(dff) = 3
    /\ isna(dff[1].row[selected_col])
    /\ 2 \in HasValue /\ 3 \in HasValue
    /\ IsMax(2) /\ IsMax(3)
    /\ kpi.idx_max = Some(dff[2].label)

\* what a first execution of the script on the file shows for the widgets
Fresh == page_dashboard(csv, widgets, <<>>)

SameAs(r) ==
    /\ outcome = r.outcome
    /\ df = r.df
    /\ dff = r.dff
    /\ kpi = r.kpi
    /\ cards = r.cards

\* C9: after any sequence of interactions the memoized frame is the file as
\* first loaded, and what the run left behind (subset, aggregates, cards)
\* equals what a first execution on the file yields for the current widgets.
C9_RecomputedFromScratch ==
    /\ outcome # "not_run" => cache = [loaded |-> TRUE, frame |-> csv]
    /\ ran("multiselect") => SameAs(Fresh)

\* all three widgets moved away from their defaults, on a file with a cell
\* that the coercion changes
C9_Witness ==
    /\ outcome = "rendered"
    /\ widgets.region # "Global"
    /\ widgets.pollutant # "PM2.5"
    /\ widgets.years # Some(year_options(df))
    /\ df # csv

====
